---- MODULE Spec2Model ----
(***************************************************************************)
(* The mobile-number session authentication of entrepedia: the mobile-auth *)
(* edge function (signup, signin), the refresh_session and validate_session*)
(* database functions, and the session check of the manage-community edge *)
(* function, over the tables user_credentials, profiles and user_sessions; *)
(* beside them the settings page's profile update, the admin hook's request*)
(* to mobile-auth and the browser hook useSessionRefresh.                  *)
(*                                                                         *)
(* Every awaited store call of a handler is one step of the request, so    *)
(* that requests can interleave between store calls.                       *)
(*                                                                         *)
(* Modelling decisions:                                                    *)
(*  - time is counted in days; the session lifetime is 30 days;            *)
(*  - gen_random_uuid() and the 32 random bytes of generateSessionToken    *)
(*    yield values never produced before (counters nextId, nextToken);     *)
(*  - SHA-256 is a deterministic injective symbolic digest of the password;*)
(*  - strings that the code inspects character by character (usernames)    *)
(*    are sequences of ASCII codes; "" / <<>> is the empty (falsy) value;  *)
(*  - a store call whose error result the handler reads may report a       *)
(*    transient error when its site is in `faults`; the request then       *)
(*    carries fault = TRUE.                                                *)
(***************************************************************************)
EXTENDS Integers, Sequences, FiniteSets, TLC

VARIABLES
    user_credentials,   \* rows [id, mobile_number, password_hash]
    profiles,           \* rows [id, username, is_online]
    user_sessions,      \* rows [session_token, user_id, expires_at, is_active]
    now,                \* the store's clock, in days
    nextId,             \* next value of gen_random_uuid()
    nextToken,          \* next value of generateSessionToken()
    req,                \* per request slot: the request in flight and its response
    log,                \* the successful signup/signin responses, in order
    budget,             \* environment events (requests, clock ticks) still allowed
    conc,               \* whether requests may overlap
    faults,             \* store call sites that may report a transient error
    pool,               \* the usernames a signup request may carry
    client,             \* the browser session of one signed-in user (useSessionRefresh)
    communities,        \* rows [id, name, created_by]
    community_members,  \* rows [community_id, user_id, role]
    community_discussions,  \* rows [id, community_id, user_id]
    follows,            \* rows [id, follower_id, following_id]
    notifications,      \* rows [id, user_id, follower_id]
    constraints,        \* constraints of tables whose definition is not at hand
    admin               \* the admin console's session hook (useAdminAuthSupabase)

\* the tables of manage-community and toggle-follow, and the admin console
social == <<communities, community_members, community_discussions, follows,
            notifications, constraints, admin>>

vars == <<user_credentials, profiles, user_sessions, now, nextId, nextToken,
          req, log, budget, conc, faults, pool, client, social>>

store == <<user_credentials, profiles, user_sessions>>

-----------------------------------------------------------------------------
(* Bounds *)

MaxEvents == 3
TickDays == 15
MaxNameLen == 3
ClientEvents == 5

(* Program constants *)

SESSION_DAYS == 30

Null == 0

-----------------------------------------------------------------------------
(* Inputs *)

Slots == {"a", "b"}

Mobiles == {"", "m1", "m2"}
Passwords == {"", "p1", "p2"}
FullNames == {"", "n1"}
AuthActions == {"signup", "signin", "admin_validate"}

\* "abc", "Abc", "x_9", "a-c" and the empty string
NamePool == {<<>>, <<97, 98, 99>>, <<65, 98, 99>>, <<120, 95, 57>>, <<97, 45, 99>>}

\* 'a' 'Z' '9' '_' '-'
NameAlphabet == {97, 90, 57, 95, 45}

ShortNames == UNION {[1..n -> NameAlphabet] : n \in 0..MaxNameLen}

\* names of 29, 30 and 31 letters, and one of 30 characters ending in '-'
LongNames == {[i \in 1..n |-> 97] : n \in 29..31}
                \cup {[i \in 1..30 |-> IF i = 30 THEN 45 ELSE 97]}

WideNames == ShortNames \cup LongNames

InspectedSites == {"su_insert_cred", "su_insert_profile", "su_insert_session",
                   "si_lookup", "si_insert_session", "rpc_validate", "rpc_refresh"}

ErrOf(site) == IF site \in faults THEN {FALSE, TRUE} ELSE {FALSE}

-----------------------------------------------------------------------------
(* Pure functions of mobile-auth *)

hashPassword(password) == <<"sha256", password>>

\* a verification that accepts every password
verifyPassword_Always(password, hash) == TRUE

verifyPassword(password, hash) == hashPassword(password) = hash

IsWordChar(c) == c \in 97..122 \/ c \in 65..90 \/ c \in 48..57 \/ c = 95

\* a username test whose lower length bound is off by one
usernameRegexTest_OffByOne(u) ==
    /\ Len(u) > 3
    /\ Len(u) <= 30
    /\ \A i \in 1..Len(u) : IsWordChar(u[i])

usernameRegexTest(u) ==
    /\ Len(u) >= 3
    /\ Len(u) <= 30
    /\ \A i \in 1..Len(u) : IsWordChar(u[i])

\* a lower-casing that leaves the name as typed
toLowerCase_Identity(u) == u

toLowerCase(u) == [i \in 1..Len(u) |-> IF u[i] \in 65..90 THEN u[i] + 32 ELSE u[i]]

\* a generator that repeats its previous value
generateSessionToken_Reuse == IF nextToken > 1 THEN nextToken - 1 ELSE nextToken

generateSessionToken == nextToken

-----------------------------------------------------------------------------
(* Request slots *)

Idle == [pc |-> "idle", kind |-> "none", action |-> "", mobile_number |-> "",
         password |-> "", full_name |-> "", username |-> <<>>, token |-> 0,
         cred_id |-> Null, sessionToken |-> 0, userId |-> Null, data |-> FALSE,
         status |-> 0, error |-> "", fault |-> FALSE, pre |-> <<{}, {}, {}>>,
         community_id |-> Null, discussion_id |-> Null, name |-> <<>>,
         following_id |-> Null, found |-> <<{}, {}, {}>>]

Reply(q, st, msg) == [q EXCEPT !.pc = "done", !.status = st, !.error = msg]

Free(r) == req[r].pc \in {"idle", "done"}

CanBegin(r) ==
    /\ budget > 0
    /\ Free(r)
    /\ conc \/ (r = "a" /\ \A s \in Slots : Free(s))

MsgRequired == "Mobile number and password are required"
MsgSignupRequired == "Full name and username are required for signup"
MsgUsername == "Username must be 3-30 characters and only contain letters, numbers, and underscores"
MsgMobileTaken == "This mobile number is already registered"
MsgUsernameTaken == "This username is already taken"
MsgCreateAccount == "Failed to create account"
MsgCreateProfile == "Failed to create profile"
MsgCreateSession == "Failed to create session"
MsgInvalidLogin == "Invalid mobile number or password"
MsgInvalidAction == "Invalid action"
MsgNoToken == "No session token provided"
MsgInvalidSession == "Invalid or expired session"

-----------------------------------------------------------------------------
(* mobile-auth: request arrival, body validation and dispatch (lines 50-74, *)
(* 177, 255-260).  No store call is made in this step.                      *)

\* a validation that does not look at full_name
ValidateBody_NoFullName(q) ==
    IF q.mobile_number = "" \/ q.password = ""
    THEN Reply(q, 400, MsgRequired)
    ELSE IF q.action = "signup"
    THEN IF q.username = <<>>
         THEN Reply(q, 400, MsgSignupRequired)
         ELSE IF ~usernameRegexTest(q.username)
         THEN Reply(q, 400, MsgUsername)
         ELSE [q EXCEPT !.pc = "su_check_mobile"]
    ELSE IF q.action = "signin"
    THEN [q EXCEPT !.pc = "si_lookup"]
    ELSE Reply(q, 400, MsgInvalidAction)

\* lines 52-74, 177, 255-260
ValidateBody(q) ==
    IF q.mobile_number = "" \/ q.password = ""
    THEN Reply(q, 400, MsgRequired)
    ELSE IF q.action = "signup"
    THEN IF q.full_name = "" \/ q.username = <<>>
         THEN Reply(q, 400, MsgSignupRequired)
         ELSE IF ~usernameRegexTest(q.username)
         THEN Reply(q, 400, MsgUsername)
         ELSE [q EXCEPT !.pc = "su_check_mobile"]
    ELSE IF q.action = "signin"
    THEN [q EXCEPT !.pc = "si_lookup"]
    ELSE Reply(q, 400, MsgInvalidAction)

AuthRequest(r) ==
    /\ CanBegin(r)
    /\ \E a \in AuthActions, m \in Mobiles, p \in Passwords, f \in FullNames, u \in pool :
        /\ a # "signup" => (f = "" /\ u = <<>>)
        /\ req' = [req EXCEPT ![r] = ValidateBody(
                      [Idle EXCEPT !.kind = "auth", !.action = a, !.mobile_number = m,
                                   !.password = p, !.full_name = f, !.username = u,
                                   !.pre = store])]
    /\ budget' = budget - 1
    /\ UNCHANGED <<user_credentials, profiles, user_sessions, now, nextId, nextToken,
                   log, conc, faults, pool, client, social>>

-----------------------------------------------------------------------------
(* mobile-auth: signup *)

\* a pre-check that never finds the mobile number
SignupCheckMobile_Skip(r) ==
    /\ req[r].pc = "su_check_mobile"
    /\ req' = [req EXCEPT ![r] = [req[r] EXCEPT !.pc = "su_check_username"]]
    /\ UNCHANGED <<user_credentials, profiles, user_sessions, now, nextId, nextToken,
                   log, budget, conc, faults, pool, client, social>>

\* lines 76-88: the mobile number pre-check
SignupCheckMobile(r) ==
    /\ req[r].pc = "su_check_mobile"
    /\ LET q == req[r]
           existingUser == \E c \in user_credentials : c.mobile_number = q.mobile_number
       IN  req' = [req EXCEPT ![r] = IF existingUser
                                     THEN Reply(q, 400, MsgMobileTaken)
                                     ELSE [q EXCEPT !.pc = "su_check_username"]]
    /\ UNCHANGED <<user_credentials, profiles, user_sessions, now, nextId, nextToken,
                   log, budget, conc, faults, pool, client, social>>

\* lines 90-102: the username pre-check, against the lower-cased name
SignupCheckUsername(r) ==
    /\ req[r].pc = "su_check_username"
    /\ LET q == req[r]
           existingUsername == \E p \in profiles : p.username = toLowerCase(q.username)
       IN  req' = [req EXCEPT ![r] = IF existingUsername
                                     THEN Reply(q, 400, MsgUsernameTaken)
                                     ELSE [q EXCEPT !.pc = "su_insert_cred"]]
    /\ UNCHANGED <<user_credentials, profiles, user_sessions, now, nextId, nextToken,
                   log, budget, conc, faults, pool, client, social>>

\* a table without the constraint
MobileUniqueViolation_Off(m) == FALSE

\* the UNIQUE constraint of user_credentials.mobile_number
MobileUniqueViolation(m) == \E c \in user_credentials : c.mobile_number = m

\* lines 104-122: hash the password and insert the credential row
SignupInsertCredentials(r) ==
    /\ req[r].pc = "su_insert_cred"
    /\ \E err \in ErrOf("su_insert_cred") :
        LET q == req[r]
            credError == err \/ MobileUniqueViolation(q.mobile_number)
        IN  IF credError
            THEN /\ req' = [req EXCEPT ![r] =
                               Reply([q EXCEPT !.fault = err], 500, MsgCreateAccount)]
                 /\ UNCHANGED <<user_credentials, nextId>>
            ELSE /\ user_credentials' = user_credentials \cup
                        {[id |-> nextId, mobile_number |-> q.mobile_number,
                          password_hash |-> hashPassword(q.password)]}
                 /\ nextId' = nextId + 1
                 /\ req' = [req EXCEPT ![r] =
                               [q EXCEPT !.cred_id = nextId, !.pc = "su_insert_profile"]]
    /\ UNCHANGED <<profiles, user_sessions, now, nextToken, log, budget, conc, faults, pool, client, social>>

\* the uniqueness of profiles.username, compared as stored; the empty value
\* stands for NULL, which a unique index does not compare
UsernameUniqueViolation(id, u) ==
    u # <<>> /\ \E p \in profiles : p.id # id /\ p.username = u

\* lines 124-134: insert the profile row under the credential's id
SignupInsertProfile(r) ==
    /\ req[r].pc = "su_insert_profile"
    /\ \E err \in ErrOf("su_insert_profile") :
        LET q == req[r]
            profileError ==
                err \/ UsernameUniqueViolation(q.cred_id, toLowerCase(q.username))
        IN  IF profileError
            THEN /\ req' = [req EXCEPT ![r] = [q EXCEPT !.fault = err, !.pc = "su_rollback"]]
                 /\ UNCHANGED profiles
            ELSE /\ profiles' = profiles \cup
                        {[id |-> q.cred_id, username |-> toLowerCase(q.username),
                          is_online |-> FALSE]}
                 /\ req' = [req EXCEPT ![r] = [q EXCEPT !.pc = "su_insert_session"]]
    /\ UNCHANGED <<user_credentials, user_sessions, now, nextId, nextToken, log, budget,
                   conc, faults, pool, client, social>>

\* a failure path without the compensating delete
SignupRollback_NoDelete(r) ==
    /\ req[r].pc = "su_rollback"
    /\ req' = [req EXCEPT ![r] = Reply(req[r], 500, MsgCreateProfile)]
    /\ UNCHANGED <<user_credentials, profiles, user_sessions, now, nextId, nextToken,
                   log, budget, conc, faults, pool, client, social>>

\* lines 134-142: the compensating delete of the credential row
SignupRollback(r) ==
    /\ req[r].pc = "su_rollback"
    /\ user_credentials' = {c \in user_credentials : c.id # req[r].cred_id}
    /\ req' = [req EXCEPT ![r] = Reply(req[r], 500, MsgCreateProfile)]
    /\ UNCHANGED <<profiles, user_sessions, now, nextId, nextToken, log, budget, conc,
                   faults, pool, client, social>>

\* the default of user_sessions.is_active
DefaultIsActive == TRUE

NewSession(user, token) ==
    [session_token |-> token, user_id |-> user, expires_at |-> now + SESSION_DAYS,
     is_active |-> DefaultIsActive]

LogEntry(q, token) ==
    [action |-> q.action, mobile_number |-> q.mobile_number, password |-> q.password,
     user |-> q.cred_id, token |-> token]

\* a failure path that deletes the credential and the profile again
SignupInsertSession_Compensate(r) ==
    /\ req[r].pc = "su_insert_session"
    /\ \E sessionError \in ErrOf("su_insert_session") :
        LET q == req[r]
            sessionToken == generateSessionToken
        IN  /\ nextToken' = nextToken + 1
            /\ IF sessionError
               THEN /\ req' = [req EXCEPT ![r] =
                                  Reply([q EXCEPT !.fault = TRUE], 500, MsgCreateSession)]
                    /\ user_credentials' = {c \in user_credentials : c.id # q.cred_id}
                    /\ profiles' = {p \in profiles : p.id # q.cred_id}
                    /\ UNCHANGED <<user_sessions, log>>
               ELSE /\ user_sessions' = user_sessions \cup {NewSession(q.cred_id, sessionToken)}
                    /\ req' = [req EXCEPT ![r] =
                                  Reply([q EXCEPT !.sessionToken = sessionToken], 200, "")]
                    /\ log' = Append(log, LogEntry(q, sessionToken))
                    /\ UNCHANGED <<user_credentials, profiles>>
    /\ UNCHANGED <<now, nextId, budget, conc, faults, pool, client, social>>

\* lines 144-174: generate the token, insert the session row, answer 200
SignupInsertSession(r) ==
    /\ req[r].pc = "su_insert_session"
    /\ \E sessionError \in ErrOf("su_insert_session") :
        LET q == req[r]
            sessionToken == generateSessionToken
        IN  /\ nextToken' = nextToken + 1
            /\ IF sessionError
               THEN /\ req' = [req EXCEPT ![r] =
                                  Reply([q EXCEPT !.fault = TRUE], 500, MsgCreateSession)]
                    /\ UNCHANGED <<user_sessions, log>>
               ELSE /\ user_sessions' = user_sessions \cup {NewSession(q.cred_id, sessionToken)}
                    /\ req' = [req EXCEPT ![r] =
                                  Reply([q EXCEPT !.sessionToken = sessionToken], 200, "")]
                    /\ log' = Append(log, LogEntry(q, sessionToken))
    /\ UNCHANGED <<user_credentials, profiles, now, nextId, budget, conc, faults, pool, client, social>>

-----------------------------------------------------------------------------
(* mobile-auth: signin *)

\* lines 185-199: the outcome of the credential lookup and the digest comparison
SigninDecision(q, credError, found) ==
    IF found = {} \/ credError
    THEN Reply([q EXCEPT !.fault = credError], 401, MsgInvalidLogin)
    ELSE LET credentials == CHOOSE c \in found : TRUE
         IN  IF ~verifyPassword(q.password, credentials.password_hash)
             THEN Reply(q, 401, MsgInvalidLogin)
             ELSE [q EXCEPT !.cred_id = credentials.id, !.pc = "si_get_profile"]

\* a lookup that deactivates the sessions of the account it finds before it
\* compares the password
SigninLookup_InvalidateFirst(r) ==
    /\ req[r].pc = "si_lookup"
    /\ \E credError \in ErrOf("si_lookup") :
        LET q == req[r]
            found == {c \in user_credentials : c.mobile_number = q.mobile_number}
        IN  /\ req' = [req EXCEPT ![r] = SigninDecision(q, credError, found)]
            /\ user_sessions' = {IF \E c \in found : c.id = s.user_id
                                  THEN [s EXCEPT !.is_active = FALSE] ELSE s :
                                      s \in user_sessions}
    /\ UNCHANGED <<user_credentials, profiles, now, nextId, nextToken,
                   log, budget, conc, faults, pool, client, social>>

\* lines 178-199: look the credential row up by mobile number, verify the password
SigninLookup(r) ==
    /\ req[r].pc = "si_lookup"
    /\ \E credError \in ErrOf("si_lookup") :
        LET q == req[r]
            found == {c \in user_credentials : c.mobile_number = q.mobile_number}
        IN  req' = [req EXCEPT ![r] = SigninDecision(q, credError, found)]
    /\ UNCHANGED <<user_credentials, profiles, user_sessions, now, nextId, nextToken,
                   log, budget, conc, faults, pool, client, social>>

\* lines 201-209: fetch the profile (best effort), then generate the session token
SigninGetProfile(r) ==
    /\ req[r].pc = "si_get_profile"
    /\ req' = [req EXCEPT ![r] = [req[r] EXCEPT !.sessionToken = generateSessionToken,
                                                !.pc = "si_invalidate"]]
    /\ nextToken' = nextToken + 1
    /\ UNCHANGED <<user_credentials, profiles, user_sessions, now, nextId, log, budget,
                   conc, faults, pool, client, social>>

\* an invalidation without its WHERE clause
InvalidateSessions_Everyone(sessions, user) ==
    {[s EXCEPT !.is_active = FALSE] : s \in sessions}

\* an invalidation that changes no row
InvalidateSessions_None(sessions, user) == sessions

\* an invalidation that spares the user's expired sessions
InvalidateSessions_Unexpired(sessions, user) ==
    {IF s.user_id = user /\ s.expires_at > now
     THEN [s EXCEPT !.is_active = FALSE] ELSE s : s \in sessions}

\* lines 211-215: update user_sessions set is_active = false where user_id = id
InvalidateSessions(sessions, user) ==
    {IF s.user_id = user THEN [s EXCEPT !.is_active = FALSE] ELSE s : s \in sessions}

SigninInvalidate(r) ==
    /\ req[r].pc = "si_invalidate"
    /\ user_sessions' = InvalidateSessions(user_sessions, req[r].cred_id)
    /\ req' = [req EXCEPT ![r] = [req[r] EXCEPT !.pc = "si_insert_session"]]
    /\ UNCHANGED <<user_credentials, profiles, now, nextId, nextToken, log, budget, conc,
                   faults, pool, client, social>>

\* an insertion that also deactivates the user's other sessions
SigninInsertSession_Exclusive(r) ==
    /\ req[r].pc = "si_insert_session"
    /\ user_sessions' = InvalidateSessions(user_sessions, req[r].cred_id)
                            \cup {NewSession(req[r].cred_id, req[r].sessionToken)}
    /\ req' = [req EXCEPT ![r] = [req[r] EXCEPT !.pc = "si_online"]]
    /\ UNCHANGED <<user_credentials, profiles, now, nextId, nextToken, log, budget, conc,
                   faults, pool, client, social>>

\* an insertion whose failure restores the sessions as the request found them
SigninInsertSession_Undo(r) ==
    /\ req[r].pc = "si_insert_session"
    /\ \E sessionError \in ErrOf("si_insert_session") :
        LET q == req[r]
        IN  IF sessionError
            THEN /\ req' = [req EXCEPT ![r] =
                               Reply([q EXCEPT !.fault = TRUE], 500, MsgCreateSession)]
                 /\ user_sessions' = q.pre[3]
            ELSE /\ user_sessions' = user_sessions \cup {NewSession(q.cred_id, q.sessionToken)}
                 /\ req' = [req EXCEPT ![r] = [q EXCEPT !.pc = "si_online"]]
    /\ UNCHANGED <<user_credentials, profiles, now, nextId, nextToken, log, budget, conc,
                   faults, pool, client, social>>

\* lines 217-232: insert the new session row
SigninInsertSession(r) ==
    /\ req[r].pc = "si_insert_session"
    /\ \E sessionError \in ErrOf("si_insert_session") :
        LET q == req[r]
        IN  IF sessionError
            THEN /\ req' = [req EXCEPT ![r] =
                               Reply([q EXCEPT !.fault = TRUE], 500, MsgCreateSession)]
                 /\ UNCHANGED user_sessions
            ELSE /\ user_sessions' = user_sessions \cup {NewSession(q.cred_id, q.sessionToken)}
                 /\ req' = [req EXCEPT ![r] = [q EXCEPT !.pc = "si_online"]]
    /\ UNCHANGED <<user_credentials, profiles, now, nextId, nextToken, log, budget, conc,
                   faults, pool, client, social>>

\* lines 234-252: set the profile online, answer 200 with the token
SigninOnline(r) ==
    /\ req[r].pc = "si_online"
    /\ profiles' = {IF p.id = req[r].cred_id THEN [p EXCEPT !.is_online = TRUE] ELSE p :
                        p \in profiles}
    /\ req' = [req EXCEPT ![r] = Reply(req[r], 200, "")]
    /\ log' = Append(log, LogEntry(req[r], req[r].sessionToken))
    /\ UNCHANGED <<user_credentials, user_sessions, now, nextId, nextToken, budget, conc,
                   faults, pool, client, social>>

-----------------------------------------------------------------------------
(* The database functions on user_sessions *)

\* validate_session(p_session_token): the owner of an active, unexpired session
validate_session(p_session_token) ==
    LET rows == {s \in user_sessions : /\ s.session_token = p_session_token
                                       /\ s.is_active = TRUE
                                       /\ s.expires_at > now}
    IN  IF rows = {} THEN Null ELSE (CHOOSE s \in rows : TRUE).user_id

\* a WHERE clause that still matches at the instant of expiry
RefreshMatches_AtExpiry(p_session_token) ==
    {s \in user_sessions : /\ s.session_token = p_session_token
                           /\ s.is_active = TRUE
                           /\ s.expires_at >= now}

\* a WHERE clause without the expiry test
RefreshMatches_IgnoreExpiry(p_session_token) ==
    {s \in user_sessions : s.session_token = p_session_token /\ s.is_active = TRUE}

\* refresh_session(p_session_token): the rows its UPDATE matches
RefreshMatches(p_session_token) ==
    {s \in user_sessions : /\ s.session_token = p_session_token
                           /\ s.is_active = TRUE
                           /\ s.expires_at > now}

\* an UPDATE that matches on the token alone and sets the active flag
RefreshedSessions_Reactivate(p_session_token) ==
    {IF s.session_token = p_session_token
     THEN [s EXCEPT !.expires_at = now + SESSION_DAYS, !.is_active = TRUE]
     ELSE s : s \in user_sessions}

\* refresh_session: the table after the UPDATE
RefreshedSessions(p_session_token) ==
    {IF s \in RefreshMatches(p_session_token)
     THEN [s EXCEPT !.expires_at = now + SESSION_DAYS] ELSE s : s \in user_sessions}

\* refresh_session: RETURN COALESCE(v_session_exists, false)
RefreshResult(p_session_token) == RefreshMatches(p_session_token) # {}

\* supabase.rpc('refresh_session', {p_session_token}) as one request
RefreshRequest(r) ==
    /\ CanBegin(r)
    /\ \E t \in 1..nextToken, error \in ErrOf("rpc_refresh") :
        LET q == [Idle EXCEPT !.kind = "refresh", !.token = t, !.pre = store]
        IN  IF error
            THEN /\ req' = [req EXCEPT ![r] = Reply([q EXCEPT !.fault = TRUE], 500, "")]
                 /\ UNCHANGED user_sessions
            ELSE /\ user_sessions' = RefreshedSessions(t)
                 /\ req' = [req EXCEPT ![r] =
                               Reply([q EXCEPT !.data = RefreshResult(t)], 200, "")]
    /\ budget' = budget - 1
    /\ UNCHANGED <<user_credentials, profiles, now, nextId, nextToken, log, conc, faults,
                   pool, client, social>>

-----------------------------------------------------------------------------
(* manage-community: the session check that precedes every action *)

\* lines 29-35: the x-session-token header; token 0 stands for an absent header
CommunityRequest(r) ==
    /\ CanBegin(r)
    /\ \E t \in 0..nextToken :
        LET q == [Idle EXCEPT !.kind = "community", !.action = "other", !.token = t,
                              !.pre = store]
        IN  req' = [req EXCEPT ![r] = IF t = 0 THEN Reply(q, 401, MsgNoToken)
                                      ELSE [q EXCEPT !.pc = "mc_validate"]]
    /\ budget' = budget - 1
    /\ UNCHANGED <<user_credentials, profiles, user_sessions, now, nextId, nextToken,
                   log, conc, faults, pool, client, social>>

\* a check that reads the error only, not the returned identifier
SessionCheck_ErrorOnly(q, sessionError, userId) ==
    IF sessionError
    THEN Reply([q EXCEPT !.fault = sessionError], 401, MsgInvalidSession)
    ELSE [q EXCEPT !.userId = userId, !.pc = "mc_dispatch"]

\* a check that reads the returned identifier only, not the error
SessionCheck_NullOnly(q, sessionError, userId) ==
    IF userId = Null
    THEN Reply([q EXCEPT !.fault = sessionError], 401, MsgInvalidSession)
    ELSE [q EXCEPT !.fault = sessionError, !.userId = userId, !.pc = "mc_dispatch"]

\* lines 40-45: the outcome of the validate_session call
SessionCheck(q, sessionError, userId) ==
    IF sessionError \/ userId = Null
    THEN Reply([q EXCEPT !.fault = sessionError], 401, MsgInvalidSession)
    ELSE [q EXCEPT !.userId = userId, !.pc = "mc_dispatch"]

\* lines 37-45: supabase.rpc("validate_session", {p_session_token})
CommunityValidate(r) ==
    /\ req[r].pc = "mc_validate"
    /\ \E sessionError \in ErrOf("rpc_validate") :
        req' = [req EXCEPT ![r] =
                   SessionCheck(req[r], sessionError, validate_session(req[r].token))]
    /\ UNCHANGED <<user_credentials, profiles, user_sessions, now, nextId, nextToken,
                   log, budget, conc, faults, pool, client, social>>

\* lines 47, 311-314: an action that is none of the handler's own
CommunityDispatch(r) ==
    /\ req[r].pc = "mc_dispatch"
    /\ req[r].action = "other"
    /\ req' = [req EXCEPT ![r] = Reply(req[r], 400, MsgInvalidAction)]
    /\ UNCHANGED <<user_credentials, profiles, user_sessions, now, nextId, nextToken,
                   log, budget, conc, faults, pool, client, social>>

-----------------------------------------------------------------------------
(* Time *)

\* the clock advances between requests (a request takes far less than a day);
\* the responses delivered so far are dropped from the slots
Tick ==
    /\ budget > 0
    /\ \A s \in Slots : Free(s)
    /\ \E d \in {TickDays, SESSION_DAYS} : now' = now + d
    /\ req' = [r \in Slots |-> Idle]
    /\ budget' = budget - 1
    /\ UNCHANGED <<user_credentials, profiles, user_sessions, nextId, nextToken,
                   log, conc, faults, pool, client, social>>

-----------------------------------------------------------------------------
(* mobile-auth: what the handler's try/catch answers (lines 36, 261-267) *)

MsgInternal == "Internal server error"

\* a handler that lets the exception escape
Catch_Rethrow(q) == [q EXCEPT !.pc = "crashed"]

\* lines 261-267: catch (error) -> 500 "Internal server error"
Catch(q) == Reply(q, 500, MsgInternal)

\* line 50: await req.json() rejects when the body is not JSON
AuthMalformed(r) ==
    /\ CanBegin(r)
    /\ req' = [req EXCEPT ![r] =
                  Catch([Idle EXCEPT !.kind = "auth", !.action = "malformed",
                                     !.pre = store])]
    /\ budget' = budget - 1
    /\ UNCHANGED <<user_credentials, profiles, user_sessions, now, nextId, nextToken,
                   log, conc, faults, pool, client, social>>

\* the positions of a mobile-auth request at which a store call is awaited
AuthStorePcs == {"su_check_mobile", "su_check_username", "su_insert_cred",
                 "su_insert_profile", "su_rollback", "su_insert_session",
                 "si_lookup", "si_get_profile", "si_invalidate", "si_insert_session",
                 "si_online"}

\* an awaited store call rejects (the connection drops) instead of returning
\* {data, error}; the exception leaves the try block at that call
StoreThrows(r) ==
    /\ "throw" \in faults
    /\ req[r].kind = "auth"
    /\ req[r].pc \in AuthStorePcs
    /\ req' = [req EXCEPT ![r] = Catch([req[r] EXCEPT !.fault = TRUE])]
    /\ UNCHANGED <<user_credentials, profiles, user_sessions, now, nextId, nextToken,
                   log, budget, conc, faults, pool, client, social>>

\* useAdminAuthSupabase.loadAdminSession: invoke('mobile-auth', {body: {action:
\* 'admin_validate', session_token}}); the body carries neither mobile_number
\* nor password
AdminValidateRequest(r) ==
    /\ CanBegin(r)
    /\ \E t \in 1..nextToken :
        req' = [req EXCEPT ![r] = ValidateBody(
                   [Idle EXCEPT !.kind = "auth", !.action = "admin_validate",
                                !.token = t, !.pre = store])]
    /\ budget' = budget - 1
    /\ UNCHANGED <<user_credentials, profiles, user_sessions, now, nextId, nextToken,
                   log, conc, faults, pool, client, social>>

-----------------------------------------------------------------------------
(* The settings page: Settings.handleSave *)

\* "", "Abc" and " x_9"
SettingsNames == {<<>>, <<65, 98, 99>>, <<32, 120, 95, 57>>}

IsSpace(c) == c = 32

RECURSIVE trimStart(_)
trimStart(u) == IF u # <<>> /\ IsSpace(Head(u)) THEN trimStart(Tail(u)) ELSE u

RECURSIVE trimEnd(_)
trimEnd(u) ==
    IF u # <<>> /\ IsSpace(u[Len(u)]) THEN trimEnd(SubSeq(u, 1, Len(u) - 1)) ELSE u

trim(u) == trimEnd(trimStart(u))

\* supabase.from('profiles').update({..., username: username.trim() || null})
\* .eq('id', user.id), by the signed-in owner of a profile; of the columns it
\* writes, only username is a column of the model
SettingsSave ==
    /\ budget > 0
    /\ \E p \in profiles, u \in SettingsNames :
        LET username == trim(u)
            error == UsernameUniqueViolation(p.id, username)
        IN  profiles' = IF error THEN profiles
                        ELSE (profiles \ {p}) \cup {[p EXCEPT !.username = username]}
    /\ budget' = budget - 1
    /\ UNCHANGED <<user_credentials, user_sessions, now, nextId, nextToken, req, log,
                   conc, faults, pool, client, social>>

-----------------------------------------------------------------------------
(* The browser: useSessionRefresh, times in minutes *)

REFRESH_INTERVAL == 60
MIN_ACTIVITY_INTERVAL == 5

ClockSteps == {1, MIN_ACTIVITY_INTERVAL, REFRESH_INTERVAL}

RpcOutcomes == {"success", "false", "error"}

\* before the hook is mounted: lastRefreshRef = useRef(0); Date.now() is far
\* beyond the first interval
Unmounted == [mounted |-> FALSE, clock |-> REFRESH_INTERVAL, lastRefreshRef |-> 0,
              timerAt |-> 0, pending |-> <<>>, calls |-> <<>>]

\* lines 25-38: refreshSession up to its await; a token is in localStorage
refreshSession(c, cause) ==
    LET n == c.clock
    IN  IF n - c.lastRefreshRef < MIN_ACTIVITY_INTERVAL
        THEN c
        ELSE [c EXCEPT !.pending = Append(@, [now |-> n, cause |-> cause]),
                       !.calls = Append(@, [at |-> n, cause |-> cause])]

\* lines 58-72: isAuthenticated becomes true: initial refresh, setInterval
ClientMount ==
    /\ budget > 0
    /\ ~client.mounted
    /\ client' = refreshSession([client EXCEPT !.mounted = TRUE, !.timerAt = client.clock],
                                "mount")
    /\ budget' = budget - 1
    /\ UNCHANGED <<user_credentials, profiles, user_sessions, now, nextId, nextToken, req,
                   log, conc, faults, pool, social>>

\* line 72: the interval timer fires
ClientInterval ==
    /\ client.mounted
    /\ client.clock - client.timerAt >= REFRESH_INTERVAL
    /\ client' = refreshSession([client EXCEPT !.timerAt = @ + REFRESH_INTERVAL], "interval")
    /\ UNCHANGED <<user_credentials, profiles, user_sessions, now, nextId, nextToken, req,
                   log, budget, conc, faults, pool, social>>

\* lines 86-91: handleActivity on mousedown, keydown, touchstart or scroll
ClientActivity ==
    /\ budget > 0
    /\ client.mounted
    /\ client' = IF client.clock - client.lastRefreshRef >= MIN_ACTIVITY_INTERVAL
                 THEN refreshSession(client, "activity")
                 ELSE client
    /\ budget' = budget - 1
    /\ UNCHANGED <<user_credentials, profiles, user_sessions, now, nextId, nextToken, req,
                   log, conc, faults, pool, social>>

RemoveAt(seq, i) == SubSeq(seq, 1, i - 1) \o SubSeq(seq, i + 1, Len(seq))

\* lines 36-55: an awaited rpc settles; only data = true stores the time captured
\* before the call
ClientRpcReturn ==
    /\ \E i \in DOMAIN client.pending, outcome \in RpcOutcomes :
        client' = [client EXCEPT
                      !.pending = RemoveAt(@, i),
                      !.lastRefreshRef = IF outcome = "success"
                                         THEN client.pending[i].now ELSE @]
    /\ UNCHANGED <<user_credentials, profiles, user_sessions, now, nextId, nextToken, req,
                   log, budget, conc, faults, pool, social>>

\* the browser's clock advances
ClientClock ==
    /\ budget > 0
    /\ client.mounted
    /\ \E d \in ClockSteps : client' = [client EXCEPT !.clock = @ + d]
    /\ budget' = budget - 1
    /\ UNCHANGED <<user_credentials, profiles, user_sessions, now, nextId, nextToken, req,
                   log, conc, faults, pool, social>>

-----------------------------------------------------------------------------
(* manage-community: the actions behind the session check *)

CommunityActions == {"create", "update", "delete", "join", "leave",
                     "delete_discussion", "other"}

\* the names a body may carry: none, " " or "c1" for create, none or "c2" for
\* update
CommunityNames(a) ==
    CASE a = "create" -> {<<>>, <<32>>, <<99, 49>>}
      [] a = "update" -> {<<>>, <<99, 50>>}
      [] OTHER -> {<<>>}

CommunitySites == {"rpc_validate", "mc_create", "mc_lookup", "mc_update", "mc_delete",
                   "mc_join", "mc_leave", "mc_dd_fetch", "mc_dd_lookup", "mc_dd_delete"}

MsgNameRequired == "Community name is required"
MsgCommunityIdRequired == "Community ID is required"
MsgDiscussionIdRequired == "Discussion ID is required"
MsgNotAuthorizedUpdate == "Not authorized to update this community"
MsgNotAuthorizedDelete == "Not authorized to delete this community"
MsgDiscussionNotFound == "Discussion not found"
MsgNotAuthorizedDiscussion == "Not authorized to delete this discussion"
\* error.message of a store error
MsgStoreError == "<error.message>"

communityTables == <<communities, community_members, community_discussions>>

\* what the steps of manage-community leave alone
communityFrame == <<user_credentials, profiles, user_sessions, now, nextToken, log,
                    budget, conc, faults, pool, client, follows, notifications,
                    constraints, admin>>

\* a request to manage-community: the header and the body; an id of 0 and the
\* name <<>> stand for an absent field, the id nextId for one that no row has
CommunityActionRequest(r) ==
    /\ CanBegin(r)
    /\ \E t \in 0..nextToken, a \in CommunityActions,
          c \in {Null, nextId} \cup {x.id : x \in communities},
          d \in {Null, nextId} \cup {x.id : x \in community_discussions} :
       \E n \in CommunityNames(a) :
        /\ a \notin {"update", "delete", "join", "leave"} => c = Null
        /\ a # "delete_discussion" => d = Null
        /\ LET q == [Idle EXCEPT !.kind = "community", !.action = a, !.token = t,
                                 !.community_id = c, !.discussion_id = d, !.name = n,
                                 !.pre = store, !.found = communityTables]
           IN  req' = [req EXCEPT ![r] = IF t = 0 THEN Reply(q, 401, MsgNoToken)
                                         ELSE [q EXCEPT !.pc = "mc_validate"]]
    /\ budget' = budget - 1
    /\ UNCHANGED <<user_credentials, profiles, user_sessions, now, nextId, nextToken,
                   log, conc, faults, pool, client, social>>

\* lines 47-51, 98-99, 145-146, 187-188, 218-219, 247-248: parse the body, enter
\* the branch of the action, test its required field
RouteCommunity(q) ==
    CASE q.action = "create" ->
            IF trim(q.name) = <<>> THEN Reply(q, 400, MsgNameRequired)
            ELSE [q EXCEPT !.pc = "mc_create"]
      [] q.action \in {"update", "delete", "join", "leave"} ->
            IF q.community_id = Null THEN Reply(q, 400, MsgCommunityIdRequired)
            ELSE [q EXCEPT !.pc = CASE q.action = "update" -> "mc_update_check"
                                    [] q.action = "delete" -> "mc_delete_check"
                                    [] q.action = "join" -> "mc_join"
                                    [] q.action = "leave" -> "mc_leave"]
      [] q.action = "delete_discussion" ->
            IF q.discussion_id = Null THEN Reply(q, 400, MsgDiscussionIdRequired)
            ELSE [q EXCEPT !.pc = "mc_dd_fetch"]

CommunityRoute(r) ==
    /\ req[r].pc = "mc_dispatch"
    /\ req[r].action # "other"
    /\ req' = [req EXCEPT ![r] = RouteCommunity(req[r])]
    /\ UNCHANGED <<user_credentials, profiles, user_sessions, now, nextId, nextToken,
                   log, budget, conc, faults, pool, client, social>>

\* lines 58-76: insert the community with created_by = userId
CommunityCreate(r) ==
    /\ req[r].pc = "mc_create"
    /\ \E createError \in ErrOf("mc_create") :
        LET q == req[r]
        IN  IF createError
            THEN /\ req' = [req EXCEPT ![r] =
                               Reply([q EXCEPT !.fault = TRUE], 400, MsgStoreError)]
                 /\ UNCHANGED <<communities, nextId>>
            ELSE /\ communities' = communities \cup
                        {[id |-> nextId, name |-> trim(q.name), created_by |-> q.userId]}
                 /\ nextId' = nextId + 1
                 /\ req' = [req EXCEPT ![r] =
                               [q EXCEPT !.community_id = nextId, !.pc = "mc_create_member"]]
    /\ UNCHANGED <<community_members, community_discussions>>
    /\ UNCHANGED communityFrame

\* lines 78-94: auto-join the creator as admin, answer 200
CommunityCreateMember(r) ==
    /\ req[r].pc = "mc_create_member"
    /\ community_members' = community_members \cup
           {[community_id |-> req[r].community_id, user_id |-> req[r].userId,
             role |-> "admin"]}
    /\ req' = [req EXCEPT ![r] = Reply(req[r], 200, "")]
    /\ UNCHANGED <<communities, community_discussions, nextId>>
    /\ UNCHANGED communityFrame

\* an ownership test that only asks whether the community exists
IsCreator_Exists(existingCommunity, userId) == existingCommunity # {}

\* lines 113, 160: !(!existingCommunity || existingCommunity.created_by !== userId)
IsCreator(existingCommunity, userId) ==
    existingCommunity # {} /\ \A c \in existingCommunity : c.created_by = userId

\* select created_by from communities where id = community_id; no row when the
\* call fails
LookupCommunity(id, error) == IF error THEN {} ELSE {c \in communities : c.id = id}

\* lines 106-118: verify ownership before the update
CommunityUpdateCheck(r) ==
    /\ req[r].pc = "mc_update_check"
    /\ \E error \in ErrOf("mc_lookup") :
        LET q == [req[r] EXCEPT !.fault = error]
        IN  req' = [req EXCEPT ![r] =
                       IF IsCreator(LookupCommunity(q.community_id, error), q.userId)
                       THEN [q EXCEPT !.pc = "mc_update_write"]
                       ELSE Reply(q, 403, MsgNotAuthorizedUpdate)]
    /\ UNCHANGED <<user_credentials, profiles, user_sessions, now, nextId, nextToken,
                   log, budget, conc, faults, pool, client, social>>

\* lines 120-141: update the community's name
CommunityUpdateWrite(r) ==
    /\ req[r].pc = "mc_update_write"
    /\ \E updateError \in ErrOf("mc_update") :
        LET q == req[r]
        IN  IF updateError
            THEN /\ req' = [req EXCEPT ![r] =
                               Reply([q EXCEPT !.fault = TRUE], 400, MsgStoreError)]
                 /\ UNCHANGED communities
            ELSE /\ communities' = {IF c.id = q.community_id /\ q.name # <<>>
                                    THEN [c EXCEPT !.name = trim(q.name)] ELSE c :
                                        c \in communities}
                 /\ req' = [req EXCEPT ![r] = Reply(q, 200, "")]
    /\ UNCHANGED <<community_members, community_discussions, nextId>>
    /\ UNCHANGED communityFrame

\* lines 153-165: verify ownership before the delete
CommunityDeleteCheck(r) ==
    /\ req[r].pc = "mc_delete_check"
    /\ \E error \in ErrOf("mc_lookup") :
        LET q == [req[r] EXCEPT !.fault = error]
        IN  req' = [req EXCEPT ![r] =
                       IF IsCreator(LookupCommunity(q.community_id, error), q.userId)
                       THEN [q EXCEPT !.pc = "mc_delete_write"]
                       ELSE Reply(q, 403, MsgNotAuthorizedDelete)]
    /\ UNCHANGED <<user_credentials, profiles, user_sessions, now, nextId, nextToken,
                   log, budget, conc, faults, pool, client, social>>

\* lines 167-183: delete the community; its discussions go with it (ON DELETE
\* CASCADE of community_discussions.community_id)
CommunityDeleteWrite(r) ==
    /\ req[r].pc = "mc_delete_write"
    /\ \E deleteError \in ErrOf("mc_delete") :
        LET q == req[r]
        IN  IF deleteError
            THEN /\ req' = [req EXCEPT ![r] =
                               Reply([q EXCEPT !.fault = TRUE], 400, MsgStoreError)]
                 /\ UNCHANGED <<communities, community_discussions>>
            ELSE /\ communities' = {c \in communities : c.id # q.community_id}
                 /\ community_discussions' =
                        {d \in community_discussions : d.community_id # q.community_id}
                 /\ req' = [req EXCEPT ![r] = Reply(q, 200, "")]
    /\ UNCHANGED <<community_members, nextId>>
    /\ UNCHANGED communityFrame

\* lines 195-214: insert the membership
CommunityJoin(r) ==
    /\ req[r].pc = "mc_join"
    /\ \E joinError \in ErrOf("mc_join") :
        LET q == req[r]
        IN  IF joinError
            THEN /\ req' = [req EXCEPT ![r] =
                               Reply([q EXCEPT !.fault = TRUE], 400, MsgStoreError)]
                 /\ UNCHANGED community_members
            ELSE /\ community_members' = community_members \cup
                        {[community_id |-> q.community_id, user_id |-> q.userId,
                          role |-> "member"]}
                 /\ req' = [req EXCEPT ![r] = Reply(q, 200, "")]
    /\ UNCHANGED <<communities, community_discussions, nextId>>
    /\ UNCHANGED communityFrame

\* lines 226-243: delete the caller's membership
CommunityLeave(r) ==
    /\ req[r].pc = "mc_leave"
    /\ \E leaveError \in ErrOf("mc_leave") :
        LET q == req[r]
        IN  IF leaveError
            THEN /\ req' = [req EXCEPT ![r] =
                               Reply([q EXCEPT !.fault = TRUE], 400, MsgStoreError)]
                 /\ UNCHANGED community_members
            ELSE /\ community_members' =
                        {m \in community_members :
                            ~(m.community_id = q.community_id /\ m.user_id = q.userId)}
                 /\ req' = [req EXCEPT ![r] = Reply(q, 200, "")]
    /\ UNCHANGED <<communities, community_discussions, nextId>>
    /\ UNCHANGED communityFrame

\* a fetch that sends every caller who names an existing discussion on to the
\* delete
DiscussionFetch_Anyone(r) ==
    /\ req[r].pc = "mc_dd_fetch"
    /\ \E fetchError \in ErrOf("mc_dd_fetch") :
        LET q == [req[r] EXCEPT !.fault = fetchError]
            rows == {d \in community_discussions : d.id = q.discussion_id}
        IN  req' = [req EXCEPT ![r] =
                IF fetchError \/ rows = {}
                THEN Reply(q, 404, MsgDiscussionNotFound)
                ELSE LET discussion == CHOOSE d \in rows : TRUE
                     IN  [q EXCEPT !.community_id = discussion.community_id,
                                   !.pc = "mc_dd_delete"]]
    /\ UNCHANGED <<user_credentials, profiles, user_sessions, now, nextId, nextToken,
                   log, budget, conc, faults, pool, client, social>>

\* lines 255-270: fetch the discussion; isOwner = discussion.user_id === userId;
\* the request keeps the discussion's community_id
DiscussionFetch(r) ==
    /\ req[r].pc = "mc_dd_fetch"
    /\ \E fetchError \in ErrOf("mc_dd_fetch") :
        LET q == [req[r] EXCEPT !.fault = fetchError]
            rows == {d \in community_discussions : d.id = q.discussion_id}
        IN  req' = [req EXCEPT ![r] =
                IF fetchError \/ rows = {}
                THEN Reply(q, 404, MsgDiscussionNotFound)
                ELSE LET discussion == CHOOSE d \in rows : TRUE
                         isOwner == discussion.user_id = q.userId
                     IN  [q EXCEPT !.community_id = discussion.community_id,
                                   !.pc = IF isOwner THEN "mc_dd_delete"
                                          ELSE "mc_dd_community"]]
    /\ UNCHANGED <<user_credentials, profiles, user_sessions, now, nextId, nextToken,
                   log, budget, conc, faults, pool, client, social>>

\* lines 272-289: isAdmin = community?.created_by === userId
DiscussionCommunity(r) ==
    /\ req[r].pc = "mc_dd_community"
    /\ \E error \in ErrOf("mc_dd_lookup") :
        LET q == [req[r] EXCEPT !.fault = error]
            isAdmin == IsCreator(LookupCommunity(q.community_id, error), q.userId)
        IN  req' = [req EXCEPT ![r] =
                       IF isAdmin THEN [q EXCEPT !.pc = "mc_dd_delete"]
                       ELSE Reply(q, 403, MsgNotAuthorizedDiscussion)]
    /\ UNCHANGED <<user_credentials, profiles, user_sessions, now, nextId, nextToken,
                   log, budget, conc, faults, pool, client, social>>

\* lines 291-307: delete the discussion
DiscussionDelete(r) ==
    /\ req[r].pc = "mc_dd_delete"
    /\ \E deleteDiscussionError \in ErrOf("mc_dd_delete") :
        LET q == req[r]
        IN  IF deleteDiscussionError
            THEN /\ req' = [req EXCEPT ![r] =
                               Reply([q EXCEPT !.fault = TRUE], 400, MsgStoreError)]
                 /\ UNCHANGED community_discussions
            ELSE /\ community_discussions' =
                        {d \in community_discussions : d.id # q.discussion_id}
                 /\ req' = [req EXCEPT ![r] = Reply(q, 200, "")]
    /\ UNCHANGED <<communities, community_members, nextId>>
    /\ UNCHANGED communityFrame

\* a member of a community posts a discussion from the browser (the INSERT
\* policy of community_discussions: auth.uid() = user_id and membership)
PostDiscussion ==
    /\ budget > 0
    /\ \A s \in Slots : Free(s)
    /\ \E m \in community_members :
        /\ \E c \in communities : c.id = m.community_id
        /\ community_discussions' = community_discussions \cup
               {[id |-> nextId, community_id |-> m.community_id, user_id |-> m.user_id]}
    /\ nextId' = nextId + 1
    /\ budget' = budget - 1
    /\ UNCHANGED <<user_credentials, profiles, user_sessions, now, nextToken, req, log,
                   conc, faults, pool, client, communities, community_members, follows,
                   notifications, constraints, admin>>

-----------------------------------------------------------------------------
(* toggle-follow *)

\* the action of a body: "follow", "unfollow" or anything else
FollowActions == {"follow", "unfollow", ""}

FollowSites == {"tf_exists", "tf_insert", "tf_notify", "tf_delete"}

MsgUserIdRequired == "user_id is required"
MsgFollowingIdRequired == "following_id is required"
MsgSelfFollow == "Cannot follow yourself"
MsgCheckFollow == "Failed to check follow status"
MsgFollow == "Failed to follow user"
MsgUnfollow == "Failed to unfollow user"

\* what the steps of toggle-follow leave alone
followFrame == <<user_credentials, profiles, user_sessions, now, nextToken, log,
                 budget, conc, faults, pool, client, communities, community_members,
                 community_discussions, constraints, admin>>

\* line 43
normalizedAction(action) == IF action = "unfollow" THEN "unfollow" ELSE "follow"

\* lines 20-46: the body and its three tests; no session is asked for
ValidateFollow(q) ==
    IF q.userId = Null THEN Reply(q, 400, MsgUserIdRequired)
    ELSE IF q.following_id = Null THEN Reply(q, 400, MsgFollowingIdRequired)
    ELSE IF q.userId = q.following_id THEN Reply(q, 400, MsgSelfFollow)
    ELSE [q EXCEPT !.pc = IF normalizedAction(q.action) = "follow"
                          THEN "tf_check" ELSE "tf_unfollow"]

FollowRequest(r) ==
    /\ CanBegin(r)
    /\ \E u, f \in {Null} \cup {p.id : p \in profiles}, a \in FollowActions :
        req' = [req EXCEPT ![r] =
                   ValidateFollow([Idle EXCEPT !.kind = "follow", !.action = a,
                                               !.userId = u, !.following_id = f])]
    /\ budget' = budget - 1
    /\ UNCHANGED <<user_credentials, profiles, user_sessions, now, nextId, nextToken,
                   log, conc, faults, pool, client, social>>

\* the rows of follows for a pair
FollowRows(rows, follower, following) ==
    {x \in rows : x.follower_id = follower /\ x.following_id = following}

\* lines 48-68: is the pair in follows already; maybeSingle reports an error
\* when more than one row matches
FollowCheck(r) ==
    /\ req[r].pc = "tf_check"
    /\ \E error \in ErrOf("tf_exists") :
        LET q == req[r]
            existing == FollowRows(follows, q.userId, q.following_id)
            existsError == error \/ Cardinality(existing) > 1
        IN  req' = [req EXCEPT ![r] =
                IF existsError THEN Reply([q EXCEPT !.fault = error], 500, MsgCheckFollow)
                ELSE IF existing # {} THEN Reply(q, 200, "")
                ELSE [q EXCEPT !.pc = "tf_insert"]]
    /\ UNCHANGED <<user_credentials, profiles, user_sessions, now, nextId, nextToken,
                   log, budget, conc, faults, pool, client, social>>

\* the store refuses a second row for a pair when follows has a uniqueness
\* constraint on (follower_id, following_id)
FollowUniqueViolation(follower, following) ==
    /\ "follows_unique" \in constraints
    /\ FollowRows(follows, follower, following) # {}

\* lines 71-81: insert the follow
FollowInsert(r) ==
    /\ req[r].pc = "tf_insert"
    /\ \E error \in ErrOf("tf_insert") :
        LET q == req[r]
            insertError == error \/ FollowUniqueViolation(q.userId, q.following_id)
        IN  IF insertError
            THEN /\ req' = [req EXCEPT ![r] =
                               Reply([q EXCEPT !.fault = error], 500, MsgFollow)]
                 /\ UNCHANGED <<follows, nextId>>
            ELSE /\ follows' = follows \cup
                        {[id |-> nextId, follower_id |-> q.userId,
                          following_id |-> q.following_id]}
                 /\ nextId' = nextId + 1
                 /\ req' = [req EXCEPT ![r] = [q EXCEPT !.pc = "tf_notify"]]
    /\ UNCHANGED notifications
    /\ UNCHANGED followFrame

\* lines 84-103: read the follower's profile, insert the notification (its
\* result is not read), answer 200
FollowNotify(r) ==
    /\ req[r].pc = "tf_notify"
    /\ \E error \in ErrOf("tf_notify") :
        LET q == req[r]
        IN  /\ IF error THEN notifications' = notifications /\ nextId' = nextId
               ELSE /\ notifications' = notifications \cup
                           {[id |-> nextId, user_id |-> q.following_id, type |-> "follow",
                             follower_id |-> q.userId]}
                    /\ nextId' = nextId + 1
            /\ req' = [req EXCEPT ![r] = Reply([q EXCEPT !.fault = error], 200, "")]
    /\ UNCHANGED follows
    /\ UNCHANGED followFrame

\* lines 107-124: delete the rows of the pair
Unfollow(r) ==
    /\ req[r].pc = "tf_unfollow"
    /\ \E deleteError \in ErrOf("tf_delete") :
        LET q == req[r]
        IN  IF deleteError
            THEN /\ req' = [req EXCEPT ![r] =
                               Reply([q EXCEPT !.fault = TRUE], 500, MsgUnfollow)]
                 /\ UNCHANGED follows
            ELSE /\ follows' = follows \ FollowRows(follows, q.userId, q.following_id)
                 /\ req' = [req EXCEPT ![r] = Reply(q, 200, "")]
    /\ UNCHANGED <<notifications, nextId>>
    /\ UNCHANGED followFrame

-----------------------------------------------------------------------------
(* The admin console: useAdminAuthSupabase *)

\* the hook is not in use
NoAdmin == [pc |-> "none"]

AdminRoles == {"super_admin", "content_moderator", "category_manager"}

\* localStorage["admin_session"]: absent, a string that is not JSON, or the JSON
\* of {user, session_token, roles}, where user or session_token may be missing
NoStorage == [kind |-> "none", user |-> Null, session_token |-> Null, roles |-> {}]

AdminStorages ==
    {NoStorage, [NoStorage EXCEPT !.kind = "garbage"]} \cup
    {[kind |-> "json", user |-> u, session_token |-> t, roles |-> {"super_admin"}] :
        u \in {Null, 1}, t \in {Null, 1}}

\* the outcomes of functions.invoke: {data, error}, where data is null (<<>>) or
\* the body {success, roles, user}; roles may be missing (<<>>) and user may be
\* missing (Null)
AdminBodies ==
    {[success |-> b, roles |-> ro, user |-> u] :
        b \in BOOLEAN,
        ro \in {<<>>, <<{}>>, <<{"super_admin"}>>, <<AdminRoles \ {"super_admin"}>>},
        u \in {Null, 2}}

AdminResponses ==
    {[error |-> TRUE, data |-> <<>>], [error |-> FALSE, data |-> <<>>]} \cup
    {[error |-> FALSE, data |-> <<d>>] : d \in AdminBodies}

\* the hook when the component mounts: lines 645-647
AdminMounted(storage) ==
    [pc |-> "mounted", storage |-> storage, user |-> Null, roles |-> {},
     loading |-> TRUE, session_token |-> Null, storedUser |-> Null, res |-> <<>>,
     threw |-> FALSE]

\* the finally block of loadAdminSession: lines 700-702
Finally(h) == [h EXCEPT !.loading = FALSE, !.pc = "ready"]

\* the catch block of loadAdminSession: lines 697-699
CatchLoad(h) == Finally([h EXCEPT !.storage = NoStorage, !.threw = TRUE])

\* lines 652-657: read and parse the stored session, up to the await
LoadStored(h) ==
    CASE h.storage.kind = "none" -> Finally(h)
      [] h.storage.kind = "garbage" -> CatchLoad(h)
      [] OTHER ->
            IF h.storage.user # Null /\ h.storage.session_token # Null
            THEN [h EXCEPT !.pc = "invoke", !.storedUser = h.storage.user,
                           !.session_token = h.storage.session_token]
            ELSE Finally(h)

\* data.roles || []
RolesOf(d) == IF d.roles = <<>> THEN {} ELSE d.roles[1]

\* lines 671-673, 682-684, 709-711: clear the session
ClearSession(h) == [h EXCEPT !.storage = NoStorage, !.user = Null, !.roles = {}]

\* the rest of loadAdminSession with the role test left out
Resolve_AnyRoles(h, res) ==
    LET g == [h EXCEPT !.res = <<res>>]
    IN  IF res.error \/ res.data = <<>> \/ ~res.data[1].success
        THEN Finally(ClearSession(g))
        ELSE LET data == res.data[1]
                 validatedRoles == RolesOf(data)
                 validatedUser == IF data.user # Null THEN data.user ELSE h.storedUser
             IN  Finally([g EXCEPT !.storage = [kind |-> "json", user |-> validatedUser,
                                                session_token |-> h.session_token,
                                                roles |-> validatedRoles],
                                   !.user = validatedUser, !.roles = validatedRoles])

\* lines 667-694: the rest of loadAdminSession once invoke has returned res
Resolve(h, res) ==
    LET g == [h EXCEPT !.res = <<res>>]
    IN  IF res.error \/ res.data = <<>> \/ ~res.data[1].success
        THEN Finally(ClearSession(g))
        ELSE LET data == res.data[1]
                 validatedRoles == RolesOf(data)
                 validatedUser == IF data.user # Null THEN data.user ELSE h.storedUser
             IN  IF validatedRoles = {}
                 THEN Finally(ClearSession(g))
                 ELSE Finally([g EXCEPT !.storage = [kind |-> "json",
                                                     user |-> validatedUser,
                                                     session_token |-> h.session_token,
                                                     roles |-> validatedRoles],
                                        !.user = validatedUser,
                                        !.roles = validatedRoles])

adminFrame == <<user_credentials, profiles, user_sessions, now, nextId, nextToken, req,
                log, conc, faults, pool, client, communities, community_members,
                community_discussions, follows, notifications, constraints>>

\* lines 649-657, 705: the effect runs loadAdminSession
AdminLoad ==
    /\ admin.pc = "mounted"
    /\ admin' = LoadStored(admin)
    /\ UNCHANGED budget
    /\ UNCHANGED adminFrame

\* lines 660-694: functions.invoke returns, or throws
AdminInvokeReturn ==
    /\ admin.pc = "invoke"
    /\ \E threw \in BOOLEAN, res \in AdminResponses :
        admin' = IF threw THEN CatchLoad(admin) ELSE Resolve(admin, res)
    /\ UNCHANGED budget
    /\ UNCHANGED adminFrame

\* lines 708-712: signOut
AdminSignOut ==
    /\ budget > 0
    /\ admin.pc \in {"invoke", "ready"}
    /\ admin' = ClearSession(admin)
    /\ budget' = budget - 1
    /\ UNCHANGED adminFrame

\* the page is loaded again: the hook starts over, localStorage stays
AdminReload ==
    /\ budget > 0
    /\ admin.pc = "ready"
    /\ admin' = AdminMounted(admin.storage)
    /\ budget' = budget - 1
    /\ UNCHANGED adminFrame

-----------------------------------------------------------------------------
(* Specifications *)

InitWith(c, f, p, b) ==
    /\ user_credentials = {}
    /\ profiles = {}
    /\ user_sessions = {}
    /\ now = 0
    /\ nextId = 1
    /\ nextToken = 1
    /\ req = [r \in Slots |-> Idle]
    /\ log = <<>>
    /\ budget = b
    /\ conc = c
    /\ faults = f
    /\ pool = p
    /\ client = Unmounted
    /\ communities = {}
    /\ community_members = {}
    /\ community_discussions = {}
    /\ follows = {}
    /\ notifications = {}
    /\ constraints = {}
    /\ admin = NoAdmin

\* non-overlapping requests; the store calls whose error the handlers read may fail
Init == InitWith(FALSE, InspectedSites, NamePool, MaxEvents)

\* two requests, the signup requests carrying one username of a wide range
InitNames == \E u \in WideNames : InitWith(FALSE, InspectedSites, {<<>>, u}, 2)

Next ==
    \/ \E r \in Slots :
        \/ AuthRequest(r)
        \/ SignupCheckMobile(r)
        \/ SignupCheckUsername(r)
        \/ SignupInsertCredentials(r)
        \/ SignupInsertProfile(r)
        \/ SignupRollback(r)
        \/ SignupInsertSession(r)
        \/ SigninLookup(r)
        \/ SigninGetProfile(r)
        \/ SigninInvalidate(r)
        \/ SigninInsertSession(r)
        \/ SigninOnline(r)
        \/ RefreshRequest(r)
        \/ CommunityRequest(r)
        \/ CommunityValidate(r)
        \/ CommunityDispatch(r)
    \/ Tick

Spec == Init /\ [][Next]_vars

SpecNames == InitNames /\ [][Next]_vars

\* "abc" and the empty string
SmallPool == {<<>>, <<97, 98, 99>>}

\* overlapping requests, no transient store error
InitConc == InitWith(TRUE, {}, SmallPool, 3)

SpecConc == InitConc /\ [][Next]_vars

\* non-overlapping requests, and the requests and failures that end in the
\* handler's catch block
InitHandler == InitWith(FALSE, InspectedSites \cup {"throw"}, SmallPool, MaxEvents)

NextHandler ==
    \/ Next
    \/ \E r \in Slots :
        \/ AuthMalformed(r)
        \/ StoreThrows(r)
        \/ AdminValidateRequest(r)

SpecHandler == InitHandler /\ [][NextHandler]_vars

\* non-overlapping requests and profile edits from the settings page
InitSettings == InitWith(FALSE, InspectedSites, SmallPool, MaxEvents)

NextSettings == Next \/ SettingsSave

SpecSettings == InitSettings /\ [][NextSettings]_vars

\* non-overlapping requests, one more of them
InitLong == InitWith(FALSE, InspectedSites, SmallPool, MaxEvents + 1)

SpecLong == InitLong /\ [][Next]_vars

\* two users registered on day 0, each holding the session of its signup, the
\* clock at day TickDays, no request in flight (reached by two signups and a
\* clock tick)
TwoUsers ==
    /\ user_credentials =
           {[id |-> 1, mobile_number |-> "m1", password_hash |-> hashPassword("p1")],
            [id |-> 2, mobile_number |-> "m2", password_hash |-> hashPassword("p1")]}
    /\ profiles = {[id |-> 1, username |-> <<97, 98, 99>>, is_online |-> FALSE],
                   [id |-> 2, username |-> <<120, 95, 57>>, is_online |-> FALSE]}
    /\ user_sessions =
           {[session_token |-> t, user_id |-> t, expires_at |-> SESSION_DAYS,
             is_active |-> DefaultIsActive] : t \in 1..2}
    /\ now = TickDays
    /\ nextToken = 3
    /\ req = [r \in Slots |-> Idle]
    /\ log = <<[action |-> "signup", mobile_number |-> "m1", password |-> "p1",
                user |-> 1, token |-> 1],
               [action |-> "signup", mobile_number |-> "m2", password |-> "p1",
                user |-> 2, token |-> 2]>>

\* manage-community with two registered users, before the first community or
\* after user 1 created one and user 2 joined it; one request at a time; every
\* store call of the handler may fail
\* no community yet
NoCommunity ==
    /\ nextId = 3
    /\ communities = {}
    /\ community_members = {}

\* user 1 has created community 3 and user 2 has joined it
OneCommunity ==
    /\ nextId = 4
    /\ communities = {[id |-> 3, name |-> <<99, 49>>, created_by |-> 1]}
    /\ community_members = {[community_id |-> 3, user_id |-> 1, role |-> "admin"],
                            [community_id |-> 3, user_id |-> 2, role |-> "member"]}

InitCommunity ==
    /\ TwoUsers
    /\ NoCommunity \/ OneCommunity
    /\ budget = MaxEvents
    /\ conc = FALSE
    /\ faults = CommunitySites
    /\ pool = {}
    /\ client = Unmounted
    /\ community_discussions = {}
    /\ follows = {}
    /\ notifications = {}
    /\ constraints = {}
    /\ admin = NoAdmin

NextCommunity ==
    \/ \E r \in Slots :
        \/ CommunityActionRequest(r)
        \/ CommunityValidate(r)
        \/ CommunityDispatch(r)
        \/ CommunityRoute(r)
        \/ CommunityCreate(r)
        \/ CommunityCreateMember(r)
        \/ CommunityUpdateCheck(r)
        \/ CommunityUpdateWrite(r)
        \/ CommunityDeleteCheck(r)
        \/ CommunityDeleteWrite(r)
        \/ CommunityJoin(r)
        \/ CommunityLeave(r)
        \/ DiscussionFetch(r)
        \/ DiscussionCommunity(r)
        \/ DiscussionDelete(r)
    \/ PostDiscussion
    \/ Tick

SpecCommunity == InitCommunity /\ [][NextCommunity]_vars

\* toggle-follow with overlapping requests of two users; whether follows has a
\* uniqueness constraint on the pair is not decided by anything under src/
InitFollow ==
    /\ TwoUsers
    /\ NoCommunity
    /\ budget = MaxEvents
    /\ conc = TRUE
    /\ faults = FollowSites
    /\ pool = {}
    /\ client = Unmounted
    /\ community_discussions = {}
    /\ follows = {}
    /\ notifications = {}
    /\ constraints \in {{}, {"follows_unique"}}
    /\ admin = NoAdmin

NextFollow ==
    \E r \in Slots :
        \/ FollowRequest(r)
        \/ FollowCheck(r)
        \/ FollowInsert(r)
        \/ FollowNotify(r)
        \/ Unfollow(r)

SpecFollow == InitFollow /\ [][NextFollow]_vars

\* the admin hook, from any stored session; the effect runs once the component
\* has mounted and the call to the server returns or throws
InitAdmin ==
    /\ TwoUsers
    /\ NoCommunity
    /\ budget = MaxEvents
    /\ conc = FALSE
    /\ faults = {}
    /\ pool = {}
    /\ client = Unmounted
    /\ community_discussions = {}
    /\ follows = {}
    /\ notifications = {}
    /\ constraints = {}
    /\ admin \in {AdminMounted(st) : st \in AdminStorages}

NextAdmin ==
    \/ AdminLoad
    \/ AdminInvokeReturn
    \/ AdminSignOut
    \/ AdminReload

SpecAdmin ==
    /\ InitAdmin
    /\ [][NextAdmin]_vars
    /\ WF_vars(AdminLoad)
    /\ WF_vars(AdminInvokeReturn)

\* the browser of one signed-in user
InitClient == InitWith(FALSE, {}, {}, ClientEvents)

NextClient ==
    \/ ClientMount
    \/ ClientInterval
    \/ ClientActivity
    \/ ClientRpcReturn
    \/ ClientClock

SpecClient == InitClient /\ [][NextClient]_vars

-----------------------------------------------------------------------------
(* Vocabulary of the properties *)

Done(r) == req[r].pc = "done"

\* the store as the request in slot r found it
PreCredentials(r) == req[r].pre[1]
PreProfiles(r) == req[r].pre[2]
PreSessions(r) == req[r].pre[3]

\* session rows that are active and not yet expired
LiveRows(sessions, token) ==
    {s \in sessions : s.session_token = token /\ s.is_active /\ now < s.expires_at}

ActiveRows(user) == {s \in user_sessions : s.user_id = user /\ s.is_active}

Signins(user) ==
    {i \in DOMAIN log : log[i].action = "signin" /\ log[i].user = user}

-----------------------------------------------------------------------------
\* C1: after two successive successful signins of one user, validate on the token
\* of the earlier signin reports Invalid from then on, and when the later signin
\* has answered, validate on its token returns the user's identifier.
C1_SecondSigninInvalidatesFirst ==
    /\ \A i, j \in DOMAIN log :
           (i < j /\ log[i].action = "signin" /\ log[j].action = "signin"
                  /\ log[i].user = log[j].user) =>
               validate_session(log[i].token) = Null
    /\ \A r \in Slots :
           (/\ req[r].kind = "auth" /\ req[r].action = "signin"
            /\ Done(r) /\ req[r].status = 200
            /\ \E i \in DOMAIN log : /\ log[i].action = "signin"
                                      /\ log[i].user = req[r].cred_id
                                      /\ log[i].token # req[r].sessionToken) =>
               validate_session(req[r].sessionToken) = req[r].cred_id

C1_Witness ==
    \E i, j \in DOMAIN log :
        /\ i < j
        /\ log[i].action = "signin" /\ log[j].action = "signin"
        /\ log[i].user = log[j].user
        /\ validate_session(log[j].token) = log[j].user
        /\ \E r \in Slots : Done(r) /\ req[r].sessionToken = log[j].token

\* C2: with non-overlapping requests, every user has at most one session row whose
\* active flag is true, in every state.
C2_AtMostOneActiveSession ==
    \A s, t \in user_sessions :
        (s.user_id = t.user_id /\ s.is_active /\ t.is_active) => s = t

C2_Witness ==
    \E s, t \in user_sessions :
        /\ s.user_id = t.user_id
        /\ s.is_active /\ ~t.is_active
        /\ \E u \in user_sessions : u.user_id # s.user_id /\ u.is_active

\* C3: the session check of a collaborating handler obtains the owning user's
\* identifier exactly when a session row with the presented token exists, is
\* active and the current time is before its expiry; for every other token
\* (inactive, expired, never issued) the check ends with the Invalid answer (401).
\* Checked for requests whose validate_session call reported no store error.
C3_ValidateIffLive ==
    \A r \in Slots :
        (req[r].kind = "community" /\ req[r].pc \in {"mc_dispatch", "done"}
            /\ req[r].token # 0 /\ ~req[r].fault) =>
            LET live == LiveRows(PreSessions(r), req[r].token)
            IN  IF live # {}
                THEN /\ req[r].userId \in {s.user_id : s \in live}
                     /\ req[r].status # 401
                ELSE /\ req[r].userId = Null
                     /\ Done(r)
                     /\ req[r].status = 401
                     /\ req[r].error = MsgInvalidSession

C3_Witness ==
    \E r \in Slots :
        /\ req[r].kind = "community" /\ req[r].pc = "mc_dispatch"
        /\ req[r].userId # Null
        /\ \E s \in user_sessions : s.session_token = req[r].token /\ s.user_id = req[r].userId
        /\ \E s \in user_sessions : ~s.is_active

\* C4: refresh(token) returns true and sets the expiry of the token's session to
\* now + 30 days when that session is active and not yet expired; it returns false
\* and changes no row when the session is inactive, expired or absent.
C4_RefreshExtendsOnlyLive ==
    \A r \in Slots :
        (req[r].kind = "refresh" /\ Done(r) /\ ~req[r].fault) =>
            LET live == LiveRows(PreSessions(r), req[r].token)
            IN  IF live # {}
                THEN /\ req[r].data = TRUE
                     /\ user_sessions = (PreSessions(r) \ live) \cup
                            {[s EXCEPT !.expires_at = now + 30] : s \in live}
                ELSE /\ req[r].data = FALSE
                     /\ user_sessions = PreSessions(r)

C4_Witness ==
    \E r \in Slots :
        /\ req[r].kind = "refresh" /\ Done(r) /\ req[r].data = TRUE
        /\ user_sessions # PreSessions(r)

\* C5: authenticate succeeds if and only if a credential record exists for the
\* mobile number and the digest of the password equals the stored digest; an
\* unknown mobile number and a wrong password are answered alike, with status 401
\* and the same generic message.  Checked for requests to which no store call
\* reported an error.
C5_SigninIffCredentialMatches ==
    \A r \in Slots :
        (req[r].kind = "auth" /\ req[r].action = "signin" /\ Done(r) /\ ~req[r].fault) =>
            LET known == {c \in PreCredentials(r) : c.mobile_number = req[r].mobile_number}
                matching == {c \in known : c.password_hash = hashPassword(req[r].password)}
            IN  /\ req[r].status = 200 <=> matching # {}
                /\ (matching = {} /\ req[r].mobile_number # "" /\ req[r].password # "") =>
                       (req[r].status = 401 /\ req[r].error = MsgInvalidLogin)

C5_Witness ==
    \E r \in Slots :
        /\ req[r].kind = "auth" /\ req[r].action = "signin" /\ Done(r)
        /\ req[r].status = 401
        /\ \E c \in user_credentials : c.mobile_number = req[r].mobile_number
        /\ \E i \in DOMAIN log : log[i].action = "signin"

\* the characters and lengths the username pattern allows
AllowedChars == (65..90) \cup (97..122) \cup (48..57) \cup {95}

AllowedName(u) == Len(u) \in 3..30 /\ \A i \in DOMAIN u : u[i] \in AllowedChars

\* a signup body that passes the validation of its fields
ValidSignupBody(q) ==
    /\ q.mobile_number # "" /\ q.password # "" /\ q.full_name # ""
    /\ AllowedName(q.username)

Fold(c) == IF c \in 65..90 THEN c + 32 ELSE c

SameIgnoringCase(u, v) == Len(u) = Len(v) /\ \A i \in DOMAIN u : Fold(u[i]) = Fold(v[i])

IsSignup(r) == req[r].kind = "auth" /\ req[r].action = "signup"

\* C6: a register request whose mobile number already has a credential record
\* fails with status 400 and creates no credential, profile or session record;
\* when its fields are otherwise valid the error is the mobile-number conflict.
C6_MobileConflict ==
    \A r \in Slots :
        (IsSignup(r) /\ req[r].pc # "idle"
            /\ \E c \in PreCredentials(r) : c.mobile_number = req[r].mobile_number) =>
            /\ store = req[r].pre
            /\ Done(r) => req[r].status = 400
            /\ (Done(r) /\ ValidSignupBody(req[r])) => req[r].error = MsgMobileTaken
            /\ req[r].pc \in {"done", "su_check_mobile"}

C6_Witness ==
    \E r \in Slots :
        /\ IsSignup(r) /\ Done(r)
        /\ req[r].error = MsgMobileTaken
        /\ \E c \in user_credentials : c.mobile_number = req[r].mobile_number

C8_UsernamePattern ==
    \A r \in Slots :
        (IsSignup(r) /\ req[r].pc # "idle") =>
            IF AllowedName(req[r].username)
            THEN req[r].error # MsgUsername
            ELSE /\ Done(r)
                 /\ req[r].status = 400
                 /\ store = req[r].pre
                 /\ (/\ req[r].mobile_number # "" /\ req[r].password # ""
                     /\ req[r].full_name # "" /\ req[r].username # <<>>)
                    => req[r].error = MsgUsername

C8_Witness ==
    \E r \in Slots :
        /\ IsSignup(r) /\ Done(r)
        /\ req[r].error = MsgUsername
        /\ Len(req[r].username) = 31

\* C9: after a successful register, authenticate with the same mobile number and
\* password succeeds and returns a session token different from the one issued
\* at registration.  Checked for signin requests to which no store call reported
\* an error.
C9_RegisterThenSignin ==
    \A r \in Slots :
        (req[r].kind = "auth" /\ req[r].action = "signin" /\ Done(r) /\ ~req[r].fault) =>
            \A i \in DOMAIN log :
                (/\ log[i].action = "signup"
                 /\ log[i].mobile_number = req[r].mobile_number
                 /\ log[i].password = req[r].password) =>
                    /\ req[r].status = 200
                    /\ req[r].cred_id = log[i].user
                    /\ req[r].sessionToken # log[i].token

C9_Witness ==
    \E r \in Slots :
        /\ req[r].kind = "auth" /\ req[r].action = "signin" /\ Done(r)
        /\ req[r].status = 200
        /\ Len(log) = 2
        /\ log[1].action = "signup" /\ log[1].user = req[r].cred_id
        /\ log[2].token = req[r].sessionToken

-----------------------------------------------------------------------------
(* Overlapping requests, the settings page, the browser, the catch block *)

IsSignin(r) == req[r].kind = "auth" /\ req[r].action = "signin"

Tokens(sessions) == {s.session_token : s \in sessions}

\* C11: a register request that passed the mobile pre-check and whose credential
\* insertion is rejected by the uniqueness constraint, another request having
\* inserted the same mobile number first, is answered with status 400.
C11_LoserGetsConflict ==
    [][\A r \in Slots :
          (/\ IsSignup(r)
           /\ req[r].pc = "su_insert_cred"
           /\ MobileUniqueViolation(req[r].mobile_number)
           /\ req'[r].pc = "done") =>
              req'[r].status = 400]_vars

\* C12: in every state, overlapping register requests included, no two
\* credential rows carry the same mobile number.
C12_MobileUnique ==
    \A c, d \in user_credentials : c.mobile_number = d.mobile_number => c = d

C12_Witness ==
    \E r, s \in Slots :
        /\ r # s /\ IsSignup(r) /\ IsSignup(s)
        /\ req[r].mobile_number = req[s].mobile_number
        /\ Done(r) /\ req[r].error = MsgCreateAccount
        /\ req[s].cred_id # Null
        /\ \E c \in user_credentials :
               c.id = req[s].cred_id /\ c.mobile_number = req[r].mobile_number

\* C13: in every state, register requests and profile edits from the settings
\* page included, no two profile rows have usernames that are equal when letter
\* case is ignored.
C13_UsernameUniqueIgnoringCase ==
    \A p, q \in profiles :
        (p.username # <<>> /\ q.username # <<>>
            /\ SameIgnoringCase(p.username, q.username)) => p = q

\* C14: when a signin request inserts its session row, every session row of
\* that user that is active stays active and the inserted row is active; so two
\* signin requests of one user that both ran their invalidation before either
\* inserted leave two active sessions.
C14_InsertKeepsActive ==
    [][\A r \in Slots :
          (IsSignin(r) /\ req[r].pc = "si_insert_session" /\ req'[r].pc = "si_online") =>
              /\ ActiveRows(req[r].cred_id) \subseteq user_sessions'
              /\ \E s \in user_sessions' : /\ s.session_token = req[r].sessionToken
                                            /\ s.user_id = req[r].cred_id
                                            /\ s.is_active]_vars

C14_Witness ==
    \E r, s \in Slots :
        /\ r # s /\ IsSignin(r) /\ IsSignin(s)
        /\ req[r].cred_id # Null /\ req[r].cred_id = req[s].cred_id
        /\ req[r].sessionToken # req[s].sessionToken
        /\ \E x, y \in ActiveRows(req[r].cred_id) :
               /\ x.session_token = req[r].sessionToken
               /\ y.session_token = req[s].sessionToken
               /\ now < x.expires_at /\ now < y.expires_at

\* C15: a session row whose active flag is false has it false after every step
\* of every signup, signin, refresh and validation, in any interleaving: its
\* token never belongs to an active row again.
C15_InactiveStaysInactive ==
    [][\A s \in user_sessions :
          ~s.is_active =>
              /\ s.session_token \in Tokens(user_sessions')
              /\ \A t \in user_sessions' :
                     t.session_token = s.session_token => ~t.is_active]_vars

C15_Witness ==
    \E r \in Slots :
        /\ req[r].kind = "refresh" /\ Done(r) /\ ~req[r].data
        /\ \E s \in user_sessions :
               /\ s.session_token = req[r].token
               /\ ~s.is_active /\ now < s.expires_at

Valid(s, time) == s.is_active /\ time < s.expires_at

\* C16: a valid session stays valid over every step, with an expiry that never
\* moves back, unless the clock reaches its expiry or a signin of its user
\* invalidates it, and the hourly refresh falls well inside the lifetime; a
\* session whose expiry has passed is valid after no step, refresh included; a
\* token becomes valid only through the session insertion of a signup or signin.
C16_RefreshKeepsAlive ==
    [][/\ REFRESH_INTERVAL < SESSION_DAYS * 24 * 60
       /\ \A s \in user_sessions :
              Valid(s, now) =>
                  \/ \E t \in user_sessions' : /\ t.session_token = s.session_token
                                                /\ Valid(t, now')
                                                /\ t.expires_at >= s.expires_at
                  \/ now' >= s.expires_at
                  \/ \E r \in Slots : /\ IsSignin(r) /\ req[r].cred_id = s.user_id
                                       /\ req[r].pc = "si_invalidate"
                                       /\ req'[r].pc = "si_insert_session"
       /\ \A s \in user_sessions :
              now >= s.expires_at =>
                  \A t \in user_sessions' :
                      t.session_token = s.session_token => ~Valid(t, now')
       /\ \A t \in user_sessions' :
              (Valid(t, now') /\ t.session_token \notin Tokens(user_sessions)) =>
                  \E r \in Slots : /\ req[r].pc \in {"su_insert_session", "si_insert_session"}
                                   /\ req'[r].sessionToken = t.session_token
                                   /\ req'[r].cred_id = t.user_id]_vars

C16_Witness ==
    \E r \in Slots :
        /\ req[r].kind = "refresh" /\ Done(r) /\ req[r].data
        /\ \E s \in PreSessions(r), t \in user_sessions :
               /\ s.session_token = req[r].token /\ t.session_token = req[r].token
               /\ s.expires_at < now + SESSION_DAYS
               /\ t.expires_at = now + SESSION_DAYS
               /\ Valid(t, now)

\* C17: of the refresh_session calls that the activity handler issues, no two
\* are less than five minutes apart, whatever the activity events, timer ticks
\* and call outcomes.
C17_ActivityThrottled ==
    \A i, j \in DOMAIN client.calls :
        (i < j /\ client.calls[i].cause = "activity"
               /\ client.calls[j].cause = "activity") =>
            client.calls[j].at - client.calls[i].at >= MIN_ACTIVITY_INTERVAL

\* the steps of a mobile-auth request in flight
AuthStep(r) ==
    \/ SignupCheckMobile(r) \/ SignupCheckUsername(r) \/ SignupInsertCredentials(r)
    \/ SignupInsertProfile(r) \/ SignupRollback(r) \/ SignupInsertSession(r)
    \/ SigninLookup(r) \/ SigninGetProfile(r) \/ SigninInvalidate(r)
    \/ SigninInsertSession(r) \/ SigninOnline(r)

\* C18: a request to mobile-auth is never left with an escaped exception: while
\* in flight it has a next step, and once answered it carries one of the
\* statuses 200, 400, 401, 500 and, unless the status is 200, an error message,
\* also when the body is not JSON or a store call fails or rejects.
C18_AlwaysStructuredResponse ==
    \A r \in Slots :
        req[r].kind = "auth" =>
            /\ req[r].pc \in AuthStorePcs \cup {"done"}
            /\ req[r].pc \in AuthStorePcs => ENABLED AuthStep(r)
            /\ Done(r) => /\ req[r].status \in {200, 400, 401, 500}
                          /\ (req[r].status = 200) = (req[r].error = "")

C18_Witness ==
    \E r \in Slots :
        /\ IsSignup(r) /\ Done(r)
        /\ req[r].status = 500 /\ req[r].error = MsgInternal
        /\ req[r].fault
        /\ req[r].cred_id # Null
        /\ req[r].cred_id \in {c.id : c \in user_credentials}

\* C19: a request to mobile-auth with action admin_validate and a session token
\* is answered 200 when the token belongs to a valid session and 401 when it
\* does not.
C19_AdminValidate ==
    \A r \in Slots :
        (/\ req[r].kind = "auth" /\ req[r].action = "admin_validate"
         /\ req[r].token # 0 /\ Done(r)) =>
            req[r].status = IF LiveRows(user_sessions, req[r].token) # {}
                            THEN 200 ELSE 401

\* the fields of a register body that the validation finds wrong
Fields == {"mobile_number", "password", "full_name", "username", "pattern"}

ViolatedFields(q) ==
    {f \in Fields :
        \/ f = "mobile_number" /\ q.mobile_number = ""
        \/ f = "password" /\ q.password = ""
        \/ f = "full_name" /\ q.full_name = ""
        \/ f = "username" /\ q.username = <<>>
        \/ f = "pattern" /\ q.username # <<>> /\ ~AllowedName(q.username)}

\* a register body in which every field is well-formed
GoodBody == [Idle EXCEPT !.kind = "auth", !.action = "signup", !.mobile_number = "m1",
                         !.password = "p1", !.full_name = "n1",
                         !.username = <<97, 98, 99>>]

\* register bodies with exactly one field wrong
OneWrong(f) ==
    CASE f = "mobile_number" -> [GoodBody EXCEPT !.mobile_number = ""]
      [] f = "password" -> [GoodBody EXCEPT !.password = ""]
      [] f = "full_name" -> [GoodBody EXCEPT !.full_name = ""]
      [] f = "username" -> [GoodBody EXCEPT !.username = <<>>]
      [] f = "pattern" -> [GoodBody EXCEPT !.username = <<97, 45, 99>>]

\* C20 as stated: a register request with a wrong field is answered 400, writes
\* nothing, and its error message is not the one answered when only another
\* field is wrong.
C20_MessagePerField ==
    \A r \in Slots :
        (IsSignup(r) /\ Done(r) /\ ViolatedFields(req[r]) # {}) =>
            /\ req[r].status = 400
            /\ store = req[r].pre
            /\ \A f \in ViolatedFields(req[r]), g \in Fields :
                   (ViolatedFields(req[r]) = {f} /\ g # f) =>
                       req[r].error # ValidateBody(OneWrong(g)).error

\* C20: a register request with a wrong field is answered 400 and writes
\* nothing; its message is the first that applies of three: one for an empty
\* mobile_number or password, one for an empty full_name or username, one for a
\* username that breaks the pattern; the three messages differ.
C20_MessagePerGroup ==
    \A r \in Slots :
        (IsSignup(r) /\ Done(r) /\ ViolatedFields(req[r]) # {}) =>
            /\ req[r].status = 400
            /\ store = req[r].pre
            /\ req[r].cred_id = Null /\ req[r].sessionToken = 0
            /\ req[r].error =
                   IF ViolatedFields(req[r]) \cap {"mobile_number", "password"} # {}
                   THEN MsgRequired
                   ELSE IF ViolatedFields(req[r]) \cap {"full_name", "username"} # {}
                   THEN MsgSignupRequired
                   ELSE MsgUsername
            /\ MsgRequired # MsgSignupRequired
            /\ MsgRequired # MsgUsername
            /\ MsgSignupRequired # MsgUsername

C20_Witness ==
    \E r \in Slots :
        /\ IsSignup(r) /\ Done(r)
        /\ ViolatedFields(req[r]) = {"full_name"}
        /\ req[r].error = MsgSignupRequired
        /\ user_credentials # {}
        /\ store = req[r].pre

-----------------------------------------------------------------------------
(* Failures and frame effects of signup and signin *)

\* the credential rows that a signin with the body of q matches
Matching(q, credentials) ==
    {c \in credentials : /\ c.mobile_number = q.mobile_number
                         /\ c.password_hash = hashPassword(q.password)}

\* C21: a signin request is answered 401 only when no credential row has its
\* mobile number or the password does not match, and a signin request during
\* which a store call failed, the credential lookup included, is answered 500.
C21_StoreFailureIs500 ==
    \A r \in Slots :
        (IsSignin(r) /\ Done(r)) =>
            /\ req[r].status = 401 => Matching(req[r], PreCredentials(r)) = {}
            /\ req[r].fault => req[r].status = 500

\* C23: when the session insertion of a register request fails, the answer is
\* 500, the credential and profile rows of the new user remain and no session
\* row exists for that user; a later signin of a user who never got a session
\* at registration succeeds when its credentials match and no store call fails.
C23_NoCompensationAfterSessionFailure ==
    /\ \A r \in Slots :
           (IsSignup(r) /\ Done(r) /\ req[r].error = MsgCreateSession) =>
               /\ req[r].status = 500
               /\ \E c \in user_credentials :
                      /\ c.id = req[r].cred_id
                      /\ c \in Matching(req[r], user_credentials)
                      /\ user_credentials = PreCredentials(r) \cup {c}
               /\ \E p \in profiles :
                      /\ p.id = req[r].cred_id
                      /\ p.username = toLowerCase(req[r].username)
                      /\ profiles = PreProfiles(r) \cup {p}
               /\ user_sessions = PreSessions(r)
               /\ \A s \in user_sessions : s.user_id # req[r].cred_id
    /\ \A r \in Slots :
           (/\ IsSignin(r) /\ Done(r) /\ ~req[r].fault
            /\ \E c \in Matching(req[r], PreCredentials(r)) :
                   \A s \in PreSessions(r) : s.user_id # c.id) =>
               /\ req[r].status = 200
               /\ validate_session(req[r].sessionToken) = req[r].cred_id

C23_Witness ==
    \E r \in Slots :
        /\ IsSignin(r) /\ Done(r) /\ req[r].status = 200
        /\ \A s \in PreSessions(r) : s.user_id # req[r].cred_id
        /\ \A i \in DOMAIN log : ~(log[i].action = "signup" /\ log[i].user = req[r].cred_id)
        /\ \E p \in profiles : p.id = req[r].cred_id
        /\ validate_session(req[r].sessionToken) = req[r].cred_id

\* C24: when the session insertion of a signin request fails after its
\* invalidation ran, the answer is 500, every session of the user is inactive,
\* nothing else in the session table differs from what the request found, and
\* no profile was changed.
C24_SigninFailureLeavesNoSession ==
    \A r \in Slots :
        (IsSignin(r) /\ Done(r) /\ req[r].error = MsgCreateSession) =>
            /\ req[r].status = 500
            /\ ActiveRows(req[r].cred_id) = {}
            /\ user_sessions = InvalidateSessions(PreSessions(r), req[r].cred_id)
            /\ profiles = PreProfiles(r)
            /\ user_credentials = PreCredentials(r)

C24_Witness ==
    \E r \in Slots :
        /\ IsSignin(r) /\ Done(r) /\ req[r].error = MsgCreateSession
        /\ \E s \in PreSessions(r) :
               /\ s.user_id = req[r].cred_id /\ s.is_active /\ now < s.expires_at
               /\ validate_session(s.session_token) = Null
        /\ \A p \in profiles : ~p.is_online

\* C28: a signin request answered 401 leaves the store as it found it: no
\* session deactivated or inserted, no profile changed.
C28_FailedSigninChangesNothing ==
    \A r \in Slots :
        (IsSignin(r) /\ Done(r) /\ req[r].status = 401) =>
            /\ user_sessions = PreSessions(r)
            /\ profiles = PreProfiles(r)
            /\ user_credentials = PreCredentials(r)

C28_Witness ==
    \E r \in Slots :
        /\ IsSignin(r) /\ Done(r) /\ req[r].status = 401 /\ ~req[r].fault
        /\ \E c \in user_credentials :
               /\ c.mobile_number = req[r].mobile_number
               /\ c.password_hash # hashPassword(req[r].password)
               /\ \E s \in user_sessions : s.user_id = c.id /\ s.is_active

OwnedByOthers(sessions, user) == {s \in sessions : s.user_id # user}

\* C29: no step of a signin request changes a session row owned by a user other
\* than the one it authenticated.
C29_SigninSparesOtherUsers ==
    [][\A r \in Slots :
          (IsSignin(r) /\ req[r].pc \in AuthStorePcs /\ req'[r] # req[r]) =>
              OwnedByOthers(user_sessions', req'[r].cred_id)
                  = OwnedByOthers(user_sessions, req'[r].cred_id)]_vars

C29_Witness ==
    \E r \in Slots :
        /\ IsSignin(r) /\ Done(r) /\ req[r].status = 200
        /\ \E s, t \in user_sessions :
               /\ s.user_id # req[r].cred_id /\ s.is_active /\ now < s.expires_at
               /\ t.user_id = req[r].cred_id /\ ~t.is_active

-----------------------------------------------------------------------------
(* Who may change communities and discussions *)

IsCommunity(r) == req[r].kind = "community"

\* the step is the end of the session check of slot r, and the check did not
\* obtain a user id: the token was missing, the call failed or it returned null
Unvalidated(r) ==
    /\ req'[r] # req[r]
    /\ req'[r].kind = "community"
    /\ \/ req'[r].token = 0
       \/ /\ req[r].pc = "mc_validate"
          /\ req'[r].fault \/ validate_session(req[r].token) = Null

\* C22: a request whose session check obtained no user id is answered 401 in
\* that step and the step leaves communities, memberships and discussions as
\* they were; every step of the handler that changes one of the three tables
\* belongs to a request holding the user id that validate_session returns for
\* its token.
C22_NoWriteWithoutSession ==
    [][/\ \A r \in Slots :
            Unvalidated(r) =>
                /\ req'[r].pc = "done"
                /\ req'[r].status = 401
                /\ req'[r].userId = Null
                /\ communityTables' = communityTables
       /\ (communityTables' # communityTables /\ req' # req) =>
            \E r \in Slots :
                /\ req'[r] # req[r]
                /\ IsCommunity(r)
                /\ req[r].token # 0
                /\ req[r].userId # Null
                /\ req[r].userId = validate_session(req[r].token)]_vars

\* the creator of a community asked to delete it with a session that is no
\* longer valid, and was turned away
C22_Witness ==
    \E r \in Slots :
        /\ IsCommunity(r) /\ Done(r) /\ req[r].status = 401
        /\ req[r].action = "delete" /\ ~req[r].fault
        /\ communityTables = req[r].found
        /\ \E c \in communities, s \in user_sessions :
               /\ c.id = req[r].community_id
               /\ s.session_token = req[r].token
               /\ s.user_id = c.created_by

\* the communities as the request of slot r found them
FoundCommunities(r) == req[r].found[1]

\* the communities with the id the request names that its caller created
OwnCommunity(r) ==
    {c \in FoundCommunities(r) :
        c.id = req[r].community_id /\ c.created_by = req[r].userId}

\* C25: an update or delete request of a validated caller that names a
\* community the caller did not create, or one that does not exist, is answered
\* 403 and leaves every community as it was; one answered 200 came from the
\* creator and touched no other community; the other actions of the handler
\* change and remove no community.
C25_OnlyCreatorChangesCommunity ==
    \A r \in Slots :
        (IsCommunity(r) /\ Done(r) /\ req[r].userId # Null) =>
            IF req[r].action \in {"update", "delete"} /\ req[r].community_id # Null
            THEN /\ OwnCommunity(r) = {} =>
                        req[r].status = 403 /\ communities = FoundCommunities(r)
                 /\ req[r].status = 200 => OwnCommunity(r) # {}
                 /\ communities # FoundCommunities(r) => req[r].status = 200
                 /\ \A c \in FoundCommunities(r) :
                        c.id # req[r].community_id => c \in communities
            ELSE FoundCommunities(r) \subseteq communities

\* a member who is not the creator asked to delete an existing community
C25_Witness ==
    \E r \in Slots :
        /\ IsCommunity(r) /\ Done(r) /\ req[r].action = "delete"
        /\ req[r].status = 403 /\ ~req[r].fault
        /\ \E c \in communities, m \in community_members :
               /\ c.id = req[r].community_id
               /\ c.created_by # req[r].userId
               /\ m.community_id = c.id /\ m.user_id = req[r].userId

\* the discussions as the request of slot r found them, and the one it names
FoundDiscussions(r) == req[r].found[3]

Target(r) == {d \in FoundDiscussions(r) : d.id = req[r].discussion_id}

\* the caller wrote the named discussion or created the community it is in
MayDeleteDiscussion(r) ==
    \E d \in Target(r) :
        \/ d.user_id = req[r].userId
        \/ \E c \in FoundCommunities(r) :
               c.id = d.community_id /\ c.created_by = req[r].userId

\* C26: a delete_discussion request of a validated caller removes no discussion
\* when no discussion has the id it names, or when one has but the caller is
\* neither its author nor the creator of its community; unless a store call
\* failed, the answer is 404 in the first case and 403 in the second; when a
\* discussion is removed it is the named one, the caller was its author or the
\* creator of its community, and the answer is 200.
C26_OnlyAuthorOrCreatorDeletes ==
    \A r \in Slots :
        (/\ IsCommunity(r) /\ Done(r) /\ req[r].action = "delete_discussion"
         /\ req[r].userId # Null /\ req[r].discussion_id # Null) =>
            /\ Target(r) = {} =>
                   /\ ~req[r].fault => req[r].status = 404
                   /\ req[r].status # 200
                   /\ FoundDiscussions(r) \subseteq community_discussions
            /\ (Target(r) # {} /\ ~MayDeleteDiscussion(r)) =>
                   /\ ~req[r].fault => req[r].status = 403
                   /\ req[r].status # 200
                   /\ FoundDiscussions(r) \subseteq community_discussions
            /\ ~(FoundDiscussions(r) \subseteq community_discussions) =>
                   /\ MayDeleteDiscussion(r)
                   /\ req[r].status = 200
                   /\ FoundDiscussions(r) \ community_discussions = Target(r)
            /\ req[r].status = 200 =>
                   /\ MayDeleteDiscussion(r)
                   /\ Target(r) \cap community_discussions = {}

\* the creator of a community removed a discussion that another member wrote
C26_Witness ==
    \E r \in Slots :
        /\ IsCommunity(r) /\ Done(r) /\ req[r].action = "delete_discussion"
        /\ req[r].status = 200 /\ ~req[r].fault
        /\ \E d \in Target(r), c \in communities :
               /\ d.user_id # req[r].userId
               /\ c.id = d.community_id /\ c.created_by = req[r].userId
               /\ d \notin community_discussions

-----------------------------------------------------------------------------
(* Follows *)

IsFollow(r) == req[r].kind = "follow"

-----------------------------------------------------------------------------
(* The admin session in the browser *)

\* the server answered that the token is valid and named at least one role
Validated(res) ==
    /\ ~res.error
    /\ res.data # <<>>
    /\ res.data[1].success
    /\ res.data[1].roles \notin {<<>>, <<{}>>}

AdminSettled ==
    ~admin.loading =>
        /\ admin.user # Null =>
               /\ admin.res # <<>>
               /\ Validated(admin.res[1])
               /\ admin.session_token # Null
               /\ admin.roles = admin.res[1].data[1].roles[1]
        /\ admin.roles # {} => admin.user # Null
        /\ (admin.res # <<>> /\ ~Validated(admin.res[1])) =>
               /\ admin.storage = NoStorage
               /\ admin.user = Null
               /\ admin.roles = {}

\* C30: whenever the hook is loading, loading ends; and when it is not loading,
\* the user is set only if the server's answer to the stored token was a
\* success with at least one role, the roles are those of the answer, and
\* after an answer that was an error, not a success or without roles the stored
\* session is gone and user and roles are empty.
C30_AdminSessionSettles ==
    /\ []AdminSettled
    /\ admin.loading ~> ~admin.loading

\* the server answered a success without roles for a stored session, and the
\* hook cleared it
C30_Witness ==
    /\ ~admin.loading
    /\ admin.res # <<>>
    /\ ~admin.res[1].error /\ admin.res[1].data # <<>>
    /\ admin.res[1].data[1].success
    /\ admin.storedUser # Null
    /\ admin.storage = NoStorage /\ admin.user = Null /\ admin.roles = {}
    /\ budget = MaxEvents

====
